---- MODULE Spec2Model ----
(***************************************************************************)
(* Model of market_pipeline.py: de-duplication, time-window filtering,     *)
(* currency normalisation, per-vehicle payload and the snapshot run.       *)
(*                                                                         *)
(* Representation of Python values                                         *)
(*   Optional[T]  : <<>> is None, <<x>> is the value x                     *)
(*   str          : sale_date and currency are sequences of one-character  *)
(*                  strings (they are parsed, compared and upper-cased);   *)
(*                  source, url, auction_house, location are plain strings *)
(*                  (they are only compared for equality / emptiness)      *)
(*   float price  : an integer number of thousandths of a currency unit    *)
(*   date         : its proleptic Gregorian ordinal (date.toordinal())     *)
(***************************************************************************)
EXTENDS Integers, Sequences, FiniteSets, TLC

VARIABLES
    pc,          \* position of the call / run being modelled
    sales,       \* the list argument of the function under call
    years,       \* filter_last_n_years: the window argument
    clock,       \* the UTC calendar date (ordinal) datetime.utcnow() yields
    unique,      \* dedupe_sales: the returned list
    unique2,     \* dedupe_sales applied to its own result
    result,      \* filter_last_n_years: the returned list
    exc,         \* the exception that left the call ("" when it returned)
    fx5,         \* build: the rate service's answer to each call of the 5-year loop
    fx1,         \* build: the rate service's answer to each call of the 1-year loop
    today5,      \* build: the date read by the 5-year filter call
    today1,      \* build: the date read by the 1-year filter call
    sales_1y,    \* build: the local sales_1y
    payload,     \* build: the returned dict
    rows,        \* main: the rows load_vehicles_from_csv returned
    row_i,       \* main: the position of the for loop in rows
    all_sales,   \* main: the local all_sales of the row in progress
    all_vehicle_payloads,  \* main: the payloads collected so far
    snapshot,    \* main: the snapshot dict, None while there is none
    posts,       \* main: the calls of post_to_market_api, with their outcome
    fetch_log,   \* main: per row in progress, what each source did
    row_log      \* main: per finished row, its fetch_log and the observations it had

vars == <<pc, sales, years, clock, unique, unique2, result, exc,
          fx5, fx1, today5, today1, sales_1y, payload,
          rows, row_i, all_sales, all_vehicle_payloads, snapshot, posts,
          fetch_log, row_log>>

buildVars == <<fx5, fx1, today5, today1, sales_1y, payload>>

mainVars == <<rows, row_i, all_sales, all_vehicle_payloads, snapshot, posts,
              fetch_log, row_log>>

\* the variables of main while no run of main is modelled
MainIdle ==
    /\ rows = <<>>
    /\ row_i = 0
    /\ all_sales = <<>>
    /\ all_vehicle_payloads = <<>>
    /\ snapshot = <<>>
    /\ posts = <<>>
    /\ fetch_log = <<>>
    /\ row_log = <<>>

\* ------------------------------------------------------------------ bounds
\* longest input list handed to a function
MaxLen == 3

\* most rows of vehicles.csv
MaxRows == 2

\* largest window (in years) handed to filter_last_n_years
MaxYears == 5

\* most days the UTC date advances between the two filter calls of one build
MaxTicks == 1

\* ---------------------------------------------------------- Python values
None == <<>>

Some(x) == <<x>>

\* all sequences over S of length at most n
SeqsUpTo(S, n) == UNION {[1..k -> S] : k \in 0..n}

\* ------------------------------------------------------------ str helpers
DigitChars == {"0", "1", "2", "3", "4", "5", "6", "7", "8", "9"}

DigitVal(c) ==
    CASE c = "0" -> 0 [] c = "1" -> 1 [] c = "2" -> 2 [] c = "3" -> 3
      [] c = "4" -> 4 [] c = "5" -> 5 [] c = "6" -> 6 [] c = "7" -> 7
      [] c = "8" -> 8 [] c = "9" -> 9

DigitChar(n) == CHOOSE c \in DigitChars : DigitVal(c) = n

\* ord(c) for the characters a date string of the model may hold
Ord(c) ==
    CASE c = " " -> 32
      [] c = "-" -> 45
      [] c \in DigitChars -> 48 + DigitVal(c)
      [] c = "x" -> 120

\* str < str : lexicographic by code point, a proper prefix is smaller
RECURSIVE StrLess(_, _)
StrLess(a, b) ==
    IF b = <<>> THEN FALSE
    ELSE IF a = <<>> THEN TRUE
    ELSE IF Ord(Head(a)) # Ord(Head(b)) THEN Ord(Head(a)) < Ord(Head(b))
    ELSE StrLess(Tail(a), Tail(b))

\* str.upper() on one character (the letters currency codes of the model use)
UpperChar(c) ==
    CASE c = "u" -> "U" [] c = "s" -> "S" [] c = "d" -> "D"
      [] c = "e" -> "E" [] c = "r" -> "R" [] c = "g" -> "G"
      [] c = "b" -> "B" [] c = "p" -> "P"
      [] OTHER -> c

Upper(s) == [i \in 1..Len(s) |-> UpperChar(s[i])]

USD == <<"U", "S", "D">>

\* ----------------------------------------------------------- date helpers
IsLeap(y) == y % 4 = 0 /\ (y % 100 # 0 \/ y % 400 = 0)

DaysInMonth(y, m) ==
    IF m = 2 THEN (IF IsLeap(y) THEN 29 ELSE 28)
    ELSE IF m \in {4, 6, 9, 11} THEN 30 ELSE 31

DaysBeforeYear(y) ==
    LET p == y - 1 IN p * 365 + (p \div 4) - (p \div 100) + (p \div 400)

RECURSIVE DaysBeforeMonth(_, _)
DaysBeforeMonth(y, m) ==
    IF m = 1 THEN 0 ELSE DaysBeforeMonth(y, m - 1) + DaysInMonth(y, m - 1)

\* date(y, m, d).toordinal()
Ymd2Ord(y, m, d) == DaysBeforeYear(y) + DaysBeforeMonth(y, m) + d

\* the decimal digits of n, zero-padded to width w
RECURSIVE ZeroPad(_, _)
ZeroPad(n, w) ==
    IF w = 0 THEN <<>> ELSE Append(ZeroPad(n \div 10, w - 1), DigitChar(n % 10))

\* date(y, m, d).isoformat() : "YYYY-MM-DD"
IsoFormat(y, m, d) == ZeroPad(y, 4) \o <<"-">> \o ZeroPad(m, 2) \o <<"-">> \o ZeroPad(d, 2)

\* ------------------------------------------------------------- SaleRecord
SaleRecord(sale_date, price, currency, source, auction_house, location, url) ==
    [sale_date |-> sale_date, price |-> price, currency |-> currency,
     source |-> source, auction_house |-> auction_house, location |-> location,
     url |-> url]

\* ------------------------------------------------- inputs of the calls
BaseSale ==
    SaleRecord(Some(IsoFormat(2024, 1, 1)), 1120, USD, "bring_a_trailer",
               None, None, None)

\* BaseSale and records that differ from it in one field (or two): some differ in
\* a way the key ignores (url None / "", price within one cent's rounding, currency
\* case, auction_house), the others in a field the key holds.
DedupeInputs ==
    { BaseSale,
      [BaseSale EXCEPT !.url = Some("")],
      [BaseSale EXCEPT !.url = Some("http://x/1")],
      [BaseSale EXCEPT !.price = 1125],
      [BaseSale EXCEPT !.price = 1130],
      [BaseSale EXCEPT !.currency = <<"u", "s", "d">>],
      [BaseSale EXCEPT !.currency = <<"E", "U", "R">>],
      [BaseSale EXCEPT !.source = "classic_com"],
      [BaseSale EXCEPT !.source = "classic_com", !.url = Some("")],
      [BaseSale EXCEPT !.auction_house = Some("Bring a Trailer")],
      [BaseSale EXCEPT !.sale_date = Some(IsoFormat(2023, 6, 15))],
      [BaseSale EXCEPT !.sale_date = None] }

\* the UTC date at the first clock read: 2024-06-15
Today0 == Ymd2Ord(2024, 6, 15)

Sale(sale_date, price, currency) ==
    SaleRecord(sale_date, price, currency, "bring_a_trailer", None, None, None)

EUR == <<"E", "U", "R">>

\* Records around the edges of both windows as seen from Today0: today, tomorrow,
\* 365 and 366 days back, 1825 and 1826 days back; a date without zero padding
\* (strptime parses it; as a string it compares above every padded date of its
\* year); a text that names no calendar date; an empty text; a missing date (None).
SaleInputs ==
    { Sale(Some(IsoFormat(2024, 6, 15)), 1120, USD),
      Sale(Some(IsoFormat(2024, 6, 15)), 1000, EUR),
      Sale(Some(IsoFormat(2024, 6, 16)), 3000, USD),
      Sale(Some(IsoFormat(2023, 6, 16)), 2000, EUR),
      Sale(Some(IsoFormat(2023, 6, 15)), 1120, USD),
      Sale(Some(IsoFormat(2019, 6, 17)), 1120, USD),
      Sale(Some(IsoFormat(2019, 6, 16)), 1120, USD),
      Sale(Some(<<"2", "0", "2", "4", "-", "6", "-", "9">>), 5000, USD),
      Sale(Some(<<"2", "0", "2", "4", "-", "0", "2", "-", "3", "0">>), 1120, USD),
      Sale(Some(<<>>), 1120, USD),
      Sale(None, 1120, USD) }

\* what BaTScraper.fetch_sales builds from a card: source, auction_house fixed,
\* currency upper-cased, an ISO date, location None here
BatSale(sale_date, price, currency, link) ==
    SaleRecord(sale_date, price, currency, "bring_a_trailer",
               Some("Bring a Trailer"), None, link)

\* what ClassicComScraper.fetch_sales_for_market builds from a card
ClassicSale(sale_date, price, currency, link) ==
    SaleRecord(sale_date, price, currency, "classic_com",
               Some("Classic.com aggregated"), None, link)

BatCard ==
    BatSale(Some(IsoFormat(2024, 6, 15)), 50000000, USD,
            Some("https://bringatrailer.com/listing/1"))

ClassicCard == ClassicSale(Some(IsoFormat(2023, 6, 15)), 1234000, EUR, None)

\* the lists a fetch of each scraper may return: nothing, one sale, and for Bring a
\* Trailer the same card met twice
BatFetches == {<<>>, <<BatCard>>, <<BatCard, BatCard>>}

ClassicFetches == {<<>>, <<ClassicCard>>}

\* rows of vehicles.csv: one with a Classic.com market URL, one without the
\* column, one whose year is no integer
RowInputs ==
    { [name |-> "Ferrari F50", year |-> <<"1", "9", "9", "5">>, make |-> "Ferrari",
       model |-> "F50", variant |-> Some(""),
       classic_market_url |-> Some("https://www.classic.com/m/ferrari/f50/")],
      [name |-> "BMW M3", year |-> <<"1", "9", "9", "0">>, make |-> "BMW",
       model |-> "M3", variant |-> Some("E30"), classic_market_url |-> None],
      [name |-> "Unknown", year |-> <<"x">>, make |-> "", model |-> "",
       variant |-> None, classic_market_url |-> None] }

\* ------------------------------------------------------ _parse_date_iso
RECURSIVE DecimalVal(_)
DecimalVal(s) ==
    IF s = <<>> THEN 0 ELSE 10 * DecimalVal(SubSeq(s, 1, Len(s) - 1)) + DigitVal(s[Len(s)])

AllDigits(s) == \A i \in 1..Len(s) : s[i] \in DigitChars

\* A one- or two-character field of %m / %d: digits, or for %d a blank then a digit
FieldOk(f, blank) ==
    \/ Len(f) \in {1, 2} /\ AllDigits(f)
    \/ blank /\ Len(f) = 2 /\ f[1] = " " /\ f[2] \in DigitChars

FieldVal(f) == IF f[1] = " " THEN DigitVal(f[2]) ELSE DecimalVal(f)

Raised(e) == [exc |-> e, ord |-> 0]

\* datetime.strptime(d, "%Y-%m-%d").date(), as the date's ordinal, or the exception
\* raised: TypeError when d is not a str, ValueError when the text does not match
\* the format or names no calendar date
strptime_date(d) ==
    IF d = None THEN Raised("TypeError")
    ELSE
      LET s == d[1]
          dashes == {i \in 1..Len(s) : s[i] = "-"}
      IN IF Cardinality(dashes) # 2 THEN Raised("ValueError")
         ELSE
           LET i1 == CHOOSE i \in dashes : \A j \in dashes : i <= j
               i2 == CHOOSE i \in dashes : \A j \in dashes : j <= i
               fy == SubSeq(s, 1, i1 - 1)
               fm == SubSeq(s, i1 + 1, i2 - 1)
               fd == SubSeq(s, i2 + 1, Len(s))
           IN IF ~(Len(fy) = 4 /\ AllDigits(fy) /\ FieldOk(fm, FALSE) /\ FieldOk(fd, TRUE))
              THEN Raised("ValueError")
              ELSE
                LET y == DecimalVal(fy)
                    m == FieldVal(fm)
                    dd == FieldVal(fd)
                IN IF y >= 1 /\ m \in 1..12 /\ dd >= 1 /\ dd <= DaysInMonth(y, m)
                   THEN [exc |-> "", ord |-> Ymd2Ord(y, m, dd)]
                   ELSE Raised("ValueError")

\* every sale_date value of the inputs
InputDates == {s.sale_date : s \in DedupeInputs \cup SaleInputs \cup {BatCard, ClassicCard}}

\* strptime_date tabulated over the sale_date values of the inputs
ParsedDates == [d \in InputDates |-> strptime_date(d)]

\* _parse_date_iso(d), for d a sale_date of the inputs
_parse_date_iso(d) == ParsedDates[d]

\* ------------------------------------------------------- dedupe_sales

\* round(price, 2), in hundredths: round-half-even on the thousandths. Python rounds
\* the binary value, which agrees with this on every price that is no tie and on the
\* ties a float holds exactly (x.125, x.375, x.625, x.875); the model's prices are
\* such values.
Round2(price) ==
    LET q == price \div 10
        r == price % 10
    IN IF r < 5 THEN q
       ELSE IF r > 5 THEN q + 1
       ELSE IF q % 2 = 0 THEN q ELSE q + 1

\* s.url or ""
UrlOrEmpty(url) == IF url = None \/ url = Some("") THEN "" ELSE url[1]

\* the key with the price left unrounded
DedupeKeyUnrounded(s) ==
    <<s.source, UrlOrEmpty(s.url), s.sale_date, s.price, Upper(s.currency)>>

\* the key tuple of dedupe_sales
DedupeKey(s) ==
    <<s.source, UrlOrEmpty(s.url), s.sale_date, Round2(s.price), Upper(s.currency)>>

RECURSIVE DedupeLoop(_, _, _, _)
DedupeLoop(ss, i, seen, uniq) ==
    IF i > Len(ss) THEN uniq
    ELSE IF DedupeKey(ss[i]) \in seen THEN DedupeLoop(ss, i + 1, seen, uniq)
    ELSE DedupeLoop(ss, i + 1, seen \cup {DedupeKey(ss[i])}, Append(uniq, ss[i]))

RECURSIVE DedupeLoopPrepend(_, _, _, _)
DedupeLoopPrepend(ss, i, seen, uniq) ==
    IF i > Len(ss) THEN uniq
    ELSE IF DedupeKey(ss[i]) \in seen THEN DedupeLoopPrepend(ss, i + 1, seen, uniq)
    ELSE DedupeLoopPrepend(ss, i + 1, seen \cup {DedupeKey(ss[i])}, <<ss[i]>> \o uniq)

\* dedupe_sales with unique.insert(0, s) in place of unique.append(s)
dedupe_sales_prepend(ss) == DedupeLoopPrepend(ss, 1, {}, <<>>)

dedupe_sales(ss) == DedupeLoop(ss, 1, {}, <<>>)

\* ------------------------------------------------- filter_last_n_years
\* the window test with sd > cutoff in place of sd >= cutoff
KeepsExclusive(ord, today, cutoff) == ord <= today /\ ord > cutoff

\* the two tests of the loop body on a parsed date: not (sd > today), sd >= cutoff
Keeps(ord, today, cutoff) == ~(ord > today) /\ ord >= cutoff

\* The loop of filter_last_n_years from position i on. A ValueError of the parse is
\* caught (continue); any other exception leaves the function.
RECURSIVE FilterLoop(_, _, _, _, _)
FilterLoop(ss, i, today, cutoff, res) ==
    IF i > Len(ss) THEN [exc |-> "", list |-> res]
    ELSE
      LET sd == _parse_date_iso(ss[i].sale_date)
      IN IF sd.exc = "ValueError" THEN FilterLoop(ss, i + 1, today, cutoff, res)
         ELSE IF sd.exc # "" THEN [exc |-> sd.exc, list |-> <<>>]
         ELSE IF Keeps(sd.ord, today, cutoff)
              THEN FilterLoop(ss, i + 1, today, cutoff, Append(res, ss[i]))
              ELSE FilterLoop(ss, i + 1, today, cutoff, res)

\* filter_last_n_years(sales, years) with today the date utcnow() gave;
\* cutoff = today - timedelta(days=years * 365)
filter_last_n_years(ss, n, today) == FilterLoop(ss, 1, today, today - n * 365, <<>>)

\* ------------------------------------------------------- convert_to_usd
\* convert_to_usd(amount, from_ccy), answer being what the rate service gives if it
\* is asked: None for an HTTP error, a timeout or a missing result, else Some(amount
\* in USD). USD is returned as it is and the service is not asked.
convert_to_usd(amount, from_ccy, answer) ==
    IF Upper(from_ccy) = USD THEN [exc |-> "", usd |-> amount]
    ELSE IF answer = None THEN [exc |-> "Exception", usd |-> 0]
    ELSE [exc |-> "", usd |-> answer[1]]

\* --------------------------------------------- build_vehicle_market_json
\* try: price_usd = convert_to_usd(...)  except Exception: price_usd = None
PriceUsdOrNone(s, answer) ==
    LET c == convert_to_usd(s.price, s.currency, answer)
    IN IF c.exc = "" THEN Some(c.usd) ELSE None

\* the enrichment with the conversion's failure dropping the record
EnrichDropFailed(sales_5y, answers) ==
    LET ok == {i \in 1..Len(sales_5y) : PriceUsdOrNone(sales_5y[i], answers[i]) # None}
        RECURSIVE Rows(_)
        Rows(i) ==
            IF i > Len(sales_5y) THEN <<>>
            ELSE IF i \in ok
                 THEN <<[sale_date |-> sales_5y[i].sale_date,
                         price |-> sales_5y[i].price,
                         currency |-> sales_5y[i].currency,
                         price_usd |-> PriceUsdOrNone(sales_5y[i], answers[i]),
                         source |-> sales_5y[i].source,
                         auction_house |-> sales_5y[i].auction_house,
                         location |-> sales_5y[i].location,
                         url |-> sales_5y[i].url]>> \o Rows(i + 1)
                 ELSE Rows(i + 1)
    IN Rows(1)

\* enriched_5y: one dict for each record of sales_5y, in order
Enrich(sales_5y, answers) ==
    [i \in 1..Len(sales_5y) |->
        [sale_date |-> sales_5y[i].sale_date,
         price |-> sales_5y[i].price,
         currency |-> sales_5y[i].currency,
         price_usd |-> PriceUsdOrNone(sales_5y[i], answers[i]),
         source |-> sales_5y[i].source,
         auction_house |-> sales_5y[i].auction_house,
         location |-> sales_5y[i].location,
         url |-> sales_5y[i].url]]

\* prices_1y_usd: the converted amounts of the 1-year loop, failures skipped
RECURSIVE Prices1yUsd(_, _, _)
Prices1yUsd(s1y, answers, i) ==
    IF i > Len(s1y) THEN <<>>
    ELSE LET c == convert_to_usd(s1y[i].price, s1y[i].currency, answers[i])
         IN IF c.exc = "" THEN <<c.usd>> \o Prices1yUsd(s1y, answers, i + 1)
            ELSE Prices1yUsd(s1y, answers, i + 1)

RECURSIVE Sum(_)
Sum(xs) == IF xs = <<>> THEN 0 ELSE Head(xs) + Sum(Tail(xs))

\* the statistics with the window's size as the divisor and the sample size
Stats1yByWindow(prices, s1y) ==
    IF prices # <<>>
    THEN [avg_price_1y_usd |-> [num |-> Sum(prices), den |-> Len(s1y)],
          sample_size_1y |-> Len(s1y)]
    ELSE [avg_price_1y_usd |-> [num |-> 0, den |-> 1], sample_size_1y |-> 0]

\* avg_price_1y_usd (the quotient sum / len as the fraction num / den; 0.0 is 0 / 1)
\* and sample_size_1y
Stats1y(prices, s1y) ==
    IF prices # <<>>
    THEN [avg_price_1y_usd |-> [num |-> Sum(prices), den |-> Len(prices)],
          sample_size_1y |-> Len(prices)]
    ELSE [avg_price_1y_usd |-> [num |-> 0, den |-> 1], sample_size_1y |-> 0]

\* sorted(..., key=sale_date, reverse=True) is stable: among equal dates the
\* earlier entry stays first. e goes before the first entry with a smaller date.
RECURSIVE InsertDesc(_, _)
InsertDesc(srt, e) ==
    IF srt = <<>> THEN <<e>>
    ELSE IF StrLess(Head(srt).sale_date[1], e.sale_date[1]) THEN <<e>> \o srt
    ELSE <<Head(srt)>> \o InsertDesc(Tail(srt), e)

RECURSIVE SortedByDateReverse(_)
SortedByDateReverse(es) ==
    IF es = <<>> THEN <<>>
    ELSE InsertDesc(SortedByDateReverse(SubSeq(es, 1, Len(es) - 1)), es[Len(es)])

\* the selection with the sort ascending and its last element taken
LastSaleOfAscending(enriched_5y) ==
    IF enriched_5y = <<>>
    THEN [last_sale_price_usd |-> None, last_sale_date |-> None]
    ELSE LET srt == SortedByDateReverse(enriched_5y)
             top == srt[1].sale_date
             last == CHOOSE i \in 1..Len(srt) :
                        /\ srt[i].sale_date = top
                        /\ \A j \in 1..Len(srt) : srt[j].sale_date = top => j <= i
         IN [last_sale_price_usd |-> srt[last].price_usd,
             last_sale_date |-> srt[last].sale_date]

\* last_sale_price_usd and last_sale_date: sorted_sales[0], or None for both
LastSale(enriched_5y) ==
    IF enriched_5y = <<>>
    THEN [last_sale_price_usd |-> None, last_sale_date |-> None]
    ELSE LET last_sale == SortedByDateReverse(enriched_5y)[1]
         IN [last_sale_price_usd |-> last_sale.price_usd,
             last_sale_date |-> last_sale.sale_date]

\* build_vehicle_market_json(vehicle, all_sales) with sales_in for all_sales: t5 and t1 are the dates the two
\* filter calls read, a5 and a1 the rate service's answers in the two loops
build_vehicle_market_json(vehicle, sales_in, t5, t1, a5, a1) ==
    LET f5 == filter_last_n_years(sales_in, 5, t5)
        f1 == filter_last_n_years(sales_in, 1, t1)
    IN IF f5.exc # "" THEN [exc |-> f5.exc, sales_1y |-> <<>>, ret |-> None]
       ELSE IF f1.exc # "" THEN [exc |-> f1.exc, sales_1y |-> <<>>, ret |-> None]
       ELSE
         LET enriched_5y == Enrich(f5.list, a5)
             stats == Stats1y(Prices1yUsd(f1.list, a1, 1), f1.list)
             last == LastSale(enriched_5y)
         IN [exc |-> "",
             sales_1y |-> f1.list,
             ret |-> Some([vehicle_name |-> vehicle.name,
                           vehicle_year |-> vehicle.year,
                           stats |-> [avg_price_1y_usd |-> stats.avg_price_1y_usd,
                                      sample_size_1y |-> stats.sample_size_1y,
                                      last_sale_price_usd |-> last.last_sale_price_usd,
                                      last_sale_date |-> last.last_sale_date],
                           sales_5y |-> enriched_5y])]

\* ------------------------------------------------ specification: dedupe
InitDedupe ==
    /\ pc = "dedupe"
    /\ sales \in SeqsUpTo(DedupeInputs, MaxLen)
    /\ years = 0
    /\ clock = 0
    /\ unique = <<>>
    /\ unique2 = <<>>
    /\ result = <<>>
    /\ exc = ""
    /\ fx5 = <<>>
    /\ fx1 = <<>>
    /\ today5 = 0
    /\ today1 = 0
    /\ sales_1y = <<>>
    /\ payload = None
    /\ MainIdle

\* all_sales = dedupe_sales(all_sales)
Dedupe ==
    /\ pc = "dedupe"
    /\ unique' = dedupe_sales(sales)
    /\ pc' = "deduped"
    /\ UNCHANGED <<sales, years, clock, unique2, result, exc, buildVars, mainVars>>

\* dedupe_sales called on the list it returned
DedupeAgain ==
    /\ pc = "deduped"
    /\ unique2' = dedupe_sales(unique)
    /\ pc' = "rededuped"
    /\ UNCHANGED <<sales, years, clock, unique, result, exc, buildVars, mainVars>>

NextDedupe == Dedupe \/ DedupeAgain

SpecDedupe == InitDedupe /\ [][NextDedupe]_vars

\* ------------------------- specification: filter and build, one call each
\* amounts the rate service may answer with
FxQuotes == {1500, 2500}

FxAnswers == {None} \cup {Some(q) : q \in FxQuotes}

\* one answer for each record of a loop; a USD record makes no request (its slot
\* stays None)
AnswersFor(list) ==
    {a \in [1..Len(list) -> FxAnswers] :
        \A i \in 1..Len(list) : Upper(list[i].currency) = USD => a[i] = None}

TheVehicle == [name |-> "Ferrari F50", year |-> 1995]

Init ==
    /\ pc = "call"
    /\ sales \in SeqsUpTo(SaleInputs, MaxLen)
    /\ years = 0
    /\ clock = Today0
    /\ unique = <<>>
    /\ unique2 = <<>>
    /\ result = <<>>
    /\ exc = ""
    /\ fx5 = <<>>
    /\ fx1 = <<>>
    /\ today5 = 0
    /\ today1 = 0
    /\ sales_1y = <<>>
    /\ payload = None
    /\ MainIdle

\* one call filter_last_n_years(sales, n)
Filter ==
    /\ pc = "call"
    /\ \E n \in 0..MaxYears :
         LET r == filter_last_n_years(sales, n, clock)
         IN /\ years' = n
            /\ result' = r.list
            /\ exc' = r.exc
            /\ pc' = IF r.exc = "" THEN "filtered" ELSE "filter_raised"
    /\ UNCHANGED <<sales, clock, unique, unique2, buildVars, mainVars>>

\* one call build_vehicle_market_json(vehicle, sales) on a de-duplicated list, as
\* main makes it. The date may advance between the function's two clock reads; the
\* rate service answers each request on its own.
Build ==
    /\ pc = "call"
    /\ sales = dedupe_sales(sales)
    /\ \E adv \in 0..MaxTicks :
         LET t5 == clock
             t1 == clock + adv
             f5 == filter_last_n_years(sales, 5, t5)
             f1 == filter_last_n_years(sales, 1, t1)
         IN \E a5 \in AnswersFor(f5.list), a1 \in AnswersFor(f1.list) :
              LET b == build_vehicle_market_json(TheVehicle, sales, t5, t1, a5, a1)
              IN /\ clock' = t1
                 /\ today5' = t5
                 /\ today1' = t1
                 /\ fx5' = a5
                 /\ fx1' = a1
                 /\ sales_1y' = b.sales_1y
                 /\ payload' = b.ret
                 /\ exc' = b.exc
                 /\ pc' = IF b.exc = "" THEN "built" ELSE "build_raised"
    /\ UNCHANGED <<sales, years, unique, unique2, result, mainVars>>

Next == Filter \/ Build

Spec == Init /\ [][Next]_vars

\* ------------------------------------------------------------------ main
\* int(text) of a decimal text: the number, or ValueError
IntOf(text) ==
    IF text # <<>> /\ AllDigits(text) THEN [exc |-> "", val |-> DecimalVal(text)]
    ELSE [exc |-> "ValueError", val |-> 0]

\* x or None, x or "" on an optional text: None and "" are both falsy
OrEmpty(x) == IF x = None THEN "" ELSE x[1]

\* VehicleQuery(name=row["name"], year=int(row["year"]), ...)
VehicleQuery(row) ==
    [name |-> row.name, year |-> IntOf(row.year).val, make |-> row.make,
     model |-> row.model,
     variant |-> IF OrEmpty(row.variant) = "" THEN None ELSE row.variant]

\* a vehicle is never skipped
NeverSkip(found) == FALSE

\* if not all_sales: ... continue
NoSales(found) == found = <<>>

\* the snapshot dict; generated_at is the UTC date of the clock read
Snapshot(payloads, now) ==
    [generated_at |-> now, vehicle_count |-> Len(payloads), vehicles |-> payloads]

InitMain ==
    /\ pc = "loop"
    /\ rows \in SeqsUpTo(RowInputs, MaxRows)
    /\ row_i = 1
    /\ all_sales = <<>>
    /\ all_vehicle_payloads = <<>>
    /\ snapshot = None
    /\ posts = <<>>
    /\ fetch_log = <<>>
    /\ row_log = <<>>
    /\ clock = Today0
    /\ exc = ""
    /\ sales = <<>>
    /\ years = 0
    /\ unique = <<>>
    /\ unique2 = <<>>
    /\ result = <<>>
    /\ fx5 = <<>>
    /\ fx1 = <<>>
    /\ today5 = 0
    /\ today1 = 0
    /\ sales_1y = <<>>
    /\ payload = None

idleVars == <<sales, years, unique, unique2, result, buildVars>>

\* top of the loop body: the VehicleQuery of the row; a year that is no integer
\* raises ValueError out of main
BeginRow ==
    /\ pc = "loop"
    /\ row_i <= Len(rows)
    /\ IF IntOf(rows[row_i].year).exc = ""
       THEN /\ pc' = "bat"
            /\ exc' = exc
       ELSE /\ pc' = "crashed"
            /\ exc' = IntOf(rows[row_i].year).exc
    /\ all_sales' = <<>>
    /\ fetch_log' = <<>>
    /\ UNCHANGED <<rows, row_i, all_vehicle_payloads, snapshot, posts, row_log,
                   clock, idleVars>>

\* FetchBat without the try/except around the fetch: a raising fetch ends the run
FetchBatUncaught ==
    /\ pc = "bat"
    /\ \/ \E got \in BatFetches :
            /\ all_sales' = all_sales \o got
            /\ fetch_log' = Append(fetch_log, [source |-> "bring_a_trailer", got |-> Some(got)])
            /\ pc' = "cc"
            /\ exc' = exc
       \/ /\ all_sales' = all_sales
          /\ fetch_log' = Append(fetch_log, [source |-> "bring_a_trailer", got |-> None])
          /\ pc' = "crashed"
          /\ exc' = "Exception"
    /\ UNCHANGED <<rows, row_i, all_vehicle_payloads, snapshot, posts, row_log,
                   clock, idleVars>>

\* 1) Bring a Trailer: the fetch returns a list, which extends all_sales, or raises,
\* which is printed
FetchBat ==
    /\ pc = "bat"
    /\ \/ \E got \in BatFetches :
            /\ all_sales' = all_sales \o got
            /\ fetch_log' = Append(fetch_log, [source |-> "bring_a_trailer", got |-> Some(got)])
       \/ /\ all_sales' = all_sales
          /\ fetch_log' = Append(fetch_log, [source |-> "bring_a_trailer", got |-> None])
    /\ pc' = "cc"
    /\ UNCHANGED <<rows, row_i, all_vehicle_payloads, snapshot, posts, row_log,
                   clock, exc, idleVars>>

\* 2) Collecting Cars: the stub returns []
FetchCollectingCars ==
    /\ pc = "cc"
    /\ all_sales' = all_sales \o <<>>
    /\ fetch_log' = Append(fetch_log, [source |-> "collecting_cars", got |-> Some(<<>>)])
    /\ pc' = "classic"
    /\ UNCHANGED <<rows, row_i, all_vehicle_payloads, snapshot, posts, row_log,
                   clock, exc, idleVars>>

\* 3) Classic.com, when the row has a market URL
FetchClassic ==
    /\ pc = "classic"
    /\ OrEmpty(rows[row_i].classic_market_url) # ""
    /\ \/ \E got \in ClassicFetches :
            /\ all_sales' = all_sales \o got
            /\ fetch_log' = Append(fetch_log, [source |-> "classic_com", got |-> Some(got)])
       \/ /\ all_sales' = all_sales
          /\ fetch_log' = Append(fetch_log, [source |-> "classic_com", got |-> None])
    /\ pc' = "aggregate"
    /\ UNCHANGED <<rows, row_i, all_vehicle_payloads, snapshot, posts, row_log,
                   clock, exc, idleVars>>

\* 3) no market URL in the row: Classic.com is skipped
SkipClassic ==
    /\ pc = "classic"
    /\ OrEmpty(rows[row_i].classic_market_url) = ""
    /\ pc' = "aggregate"
    /\ UNCHANGED <<rows, row_i, all_sales, all_vehicle_payloads, snapshot, posts,
                   fetch_log, row_log, clock, exc, idleVars>>

\* no sales found: the vehicle is skipped (continue)
SkipVehicle ==
    /\ pc = "aggregate"
    /\ NoSales(all_sales)
    /\ row_log' = Append(row_log, [fetched |-> fetch_log, found |-> all_sales, built |-> FALSE])
    /\ row_i' = row_i + 1
    /\ pc' = "loop"
    /\ UNCHANGED <<rows, all_sales, all_vehicle_payloads, snapshot, posts, fetch_log,
                   clock, exc, idleVars>>

\* de-duplicate, build the payload (the out_*.json file is written), collect it
BuildVehicle ==
    /\ pc = "aggregate"
    /\ ~NoSales(all_sales)
    /\ \E adv \in 0..MaxTicks :
         LET deduped == dedupe_sales(all_sales)
             t5 == clock
             t1 == clock + adv
             f5 == filter_last_n_years(deduped, 5, t5)
             f1 == filter_last_n_years(deduped, 1, t1)
         IN \E a5 \in AnswersFor(f5.list), a1 \in AnswersFor(f1.list) :
              LET b == build_vehicle_market_json(VehicleQuery(rows[row_i]), deduped,
                                                 t5, t1, a5, a1)
              IN /\ clock' = t1
                 /\ IF b.exc = ""
                    THEN /\ all_vehicle_payloads' = Append(all_vehicle_payloads, b.ret[1])
                         /\ row_log' = Append(row_log, [fetched |-> fetch_log,
                                                        found |-> all_sales, built |-> TRUE])
                         /\ row_i' = row_i + 1
                         /\ pc' = "loop"
                         /\ exc' = exc
                    ELSE /\ pc' = "crashed"
                         /\ exc' = b.exc
                         /\ UNCHANGED <<all_vehicle_payloads, row_log, row_i>>
    /\ UNCHANGED <<rows, all_sales, snapshot, posts, fetch_log, idleVars>>

\* after the loop, no payload: nothing to POST, main returns
NothingToPost ==
    /\ pc = "loop"
    /\ row_i > Len(rows)
    /\ all_vehicle_payloads = <<>>
    /\ pc' = "done"
    /\ UNCHANGED <<rows, row_i, all_sales, all_vehicle_payloads, snapshot, posts,
                   fetch_log, row_log, clock, exc, idleVars>>

\* after the loop: the snapshot is built and handed to post_to_market_api, which
\* skips the POST without MARKET_API_URL, posts, or raises; main swallows the raise
PostSnapshot ==
    /\ pc = "loop"
    /\ row_i > Len(rows)
    /\ all_vehicle_payloads # <<>>
    /\ snapshot' = Some(Snapshot(all_vehicle_payloads, clock))
    /\ \E outcome \in {"skipped", "posted", "raised"} :
         posts' = Append(posts, [payload |-> Snapshot(all_vehicle_payloads, clock),
                                 outcome |-> outcome])
    /\ pc' = "done"
    /\ UNCHANGED <<rows, row_i, all_sales, all_vehicle_payloads, fetch_log, row_log,
                   clock, exc, idleVars>>

NextMain ==
    \/ BeginRow
    \/ FetchBat
    \/ FetchCollectingCars
    \/ FetchClassic
    \/ SkipClassic
    \/ SkipVehicle
    \/ BuildVehicle
    \/ NothingToPost
    \/ PostSnapshot

SpecMain == InitMain /\ [][NextMain]_vars

\* ------------------------------------------------------------ claims
\* C3: dedupe_sales is idempotent: applied to the list it returned, it returns
\* that list again, same records in the same order.
C3_DedupeIdempotent == pc = "rededuped" => unique2 = unique

\* C3 witness: an input with a duplicate in it has been deduplicated twice
C3_Witness ==
    /\ pc = "rededuped"
    /\ Len(unique) >= 2
    /\ Len(unique) < Len(sales)

\* the key of the claim: source, url or "", sale_date, price to 2 decimals,
\* currency upper-cased
SameKey(a, b) ==
    /\ a.source = b.source
    /\ UrlOrEmpty(a.url) = UrlOrEmpty(b.url)
    /\ a.sale_date = b.sale_date
    /\ Round2(a.price) = Round2(b.price)
    /\ Upper(a.currency) = Upper(b.currency)

\* the positions of S holding the first occurrence of their key
FirstOccurrences(S) == {i \in 1..Len(S) : \A j \in 1..(i - 1) : ~SameKey(S[j], S[i])}

\* the subsequence of S at the positions P
RECURSIVE SubsequenceAt(_, _, _)
SubsequenceAt(S, P, i) ==
    IF i > Len(S) THEN <<>>
    ELSE IF i \in P THEN <<S[i]>> \o SubsequenceAt(S, P, i + 1)
    ELSE SubsequenceAt(S, P, i + 1)

\* C4: dedupe_sales(S) is the subsequence of S keeping exactly the first occurrence
\* of each distinct key, in the original order: no two output records share a key,
\* every key of S occurs in the output, and records differing only in source are
\* both kept (the output holds an entry for each, at two positions).
C4_DedupeFirstOccurrences ==
    pc # "dedupe" =>
      /\ unique = SubsequenceAt(sales, FirstOccurrences(sales), 1)
      /\ \A i, j \in 1..Len(unique) : i # j => ~SameKey(unique[i], unique[j])
      /\ \A i \in 1..Len(sales) : \E j \in 1..Len(unique) : SameKey(sales[i], unique[j])
      /\ \A i, j \in 1..Len(sales) :
            (sales[i].source # sales[j].source
             /\ sales[i] = [sales[j] EXCEPT !.source = sales[i].source])
            => \E k, l \in 1..Len(unique) :
                  k # l /\ SameKey(unique[k], sales[i]) /\ SameKey(unique[l], sales[j])

\* C4 witness: a duplicate was dropped after a later distinct record was kept, and
\* two records differing only in source are both in the output
C4_Witness ==
    /\ pc = "deduped"
    /\ Len(sales) = 3
    /\ SameKey(sales[1], sales[2])
    /\ sales[1] # sales[2]
    /\ sales[3].source # sales[1].source
    /\ sales[3] = [sales[1] EXCEPT !.source = sales[3].source]
    /\ unique = <<sales[1], sales[3]>>


\* ---------------------------------------- claims on filter and build
\* sale_date parses to a date d with today - 365 * n <= d <= today
InWindow(s, n, today) ==
    LET d == _parse_date_iso(s.sale_date)
    IN d.exc = "" /\ today - 365 * n <= d.ord /\ d.ord <= today

\* the records of S in the window, in input order
Window(S, n, today) == SelectSeq(S, LAMBDA s : InWindow(s, n, today))

\* e is the sales_5y entry of the record s
EntryOf(e, s) ==
    /\ e.sale_date = s.sale_date
    /\ e.price = s.price
    /\ e.currency = s.currency
    /\ e.source = s.source
    /\ e.auction_house = s.auction_house
    /\ e.location = s.location
    /\ e.url = s.url

\* the conversion of record s succeeds when the rate service answers a
Succeeds(s, a) == Upper(s.currency) = USD \/ a # None

\* the amount a successful conversion of s yields
Converted(s, a) == IF Upper(s.currency) = USD THEN s.price ELSE a[1]

\* the positions of the 1-year loop whose conversion succeeded
Contributing == {i \in 1..Len(sales_1y) : Succeeds(sales_1y[i], fx1[i])}

RECURSIVE SumOver(_, _)
SumOver(f, I) ==
    IF I = {} THEN 0
    ELSE LET i == CHOOSE x \in I : TRUE IN f[i] + SumOver(f, I \ {i})

\* C1: in every payload, each record the 1-year filter call selected has an entry in
\* sales_5y, also when the UTC date advances between the two filter calls.
C1_OneYearWithinFiveYear ==
    pc = "built" =>
      \A i \in 1..Len(sales_1y) :
         \E j \in 1..Len(payload[1].sales_5y) : EntryOf(payload[1].sales_5y[j], sales_1y[i])

\* C2: in every payload, each observation whose converted amount went into
\* avg_price_1y_usd has an entry in sales_5y with price_usd not null, whatever the
\* rate service answered on each call.
C2_ContributorsConvertedIn5y ==
    pc = "built" =>
      \A i \in Contributing :
         \E j \in 1..Len(payload[1].sales_5y) :
            /\ EntryOf(payload[1].sales_5y[j], sales_1y[i])
            /\ payload[1].sales_5y[j].price_usd # None

\* C5: when filter_last_n_years(S, years) returns, it returns, in input order,
\* exactly the records whose sale_date d has today - 365 * years <= d <= today; no
\* record dated after the date the call read is in its result, in sales_5y or
\* in last_sale_date.
C5_FilterIsWindow ==
    /\ pc = "filtered" =>
         /\ result = Window(sales, years, clock)
         /\ \A i \in 1..Len(result) : _parse_date_iso(result[i].sale_date).ord <= clock
    /\ pc = "built" =>
         /\ \A j \in 1..Len(payload[1].sales_5y) :
               _parse_date_iso(payload[1].sales_5y[j].sale_date).ord <= today5
         /\ payload[1].stats.last_sale_date # None =>
               _parse_date_iso(payload[1].stats.last_sale_date).ord <= today5

\* C5 witness: a one-year call returned, with a record dated after today dropped
\* and a record dated exactly 365 days back kept
C5_Witness ==
    /\ pc = "filtered"
    /\ years = 1
    /\ \E i \in 1..Len(sales) :
          /\ sales[i].sale_date # None
          /\ _parse_date_iso(sales[i].sale_date).exc = ""
          /\ _parse_date_iso(sales[i].sale_date).ord > clock
    /\ \E i \in 1..Len(result) : _parse_date_iso(result[i].sale_date).ord = clock - 365

C7_LastSale ==
    pc = "built" =>
      LET es == payload[1].sales_5y
          st == payload[1].stats
      IN IF es = <<>>
         THEN st.last_sale_date = None /\ st.last_sale_price_usd = None
         ELSE \E i \in 1..Len(es) :
                /\ \A j \in 1..Len(es) : ~StrLess(es[i].sale_date[1], es[j].sale_date[1])
                /\ \A j \in 1..(i - 1) : es[j].sale_date # es[i].sale_date
                /\ st.last_sale_date = es[i].sale_date
                /\ st.last_sale_price_usd = es[i].price_usd

\* C7 witness: two entries share the greatest date and differ in price_usd; the
\* first one's price_usd was selected
C7_Witness ==
    /\ pc = "built"
    /\ Len(payload[1].sales_5y) = 3
    /\ payload[1].sales_5y[2].sale_date = payload[1].sales_5y[3].sale_date
    /\ StrLess(payload[1].sales_5y[1].sale_date[1], payload[1].sales_5y[2].sale_date[1])
    /\ payload[1].sales_5y[2].price_usd # payload[1].sales_5y[3].price_usd
    /\ payload[1].stats.last_sale_price_usd = payload[1].sales_5y[2].price_usd
    /\ payload[1].stats.last_sale_date = payload[1].sales_5y[2].sale_date

\* C8: sample_size_1y is the number of 1-year-window records whose conversion
\* succeeded, at most the window's size and equal to it exactly when every
\* conversion succeeded; avg_price_1y_usd is the mean of the converted amounts, and
\* with none of them both are 0.
C8_SampleAndAverage ==
    pc = "built" =>
      LET st == payload[1].stats
          w == Window(sales, 1, today1)
          amounts == [i \in 1..Len(sales_1y) |-> Converted(sales_1y[i], fx1[i])]
      IN /\ sales_1y = w
         /\ st.sample_size_1y = Cardinality(Contributing)
         /\ st.sample_size_1y <= Len(w)
         /\ (st.sample_size_1y = Len(w)) <=>
               (\A i \in 1..Len(w) : Succeeds(w[i], fx1[i]))
         /\ st.avg_price_1y_usd.den > 0
         /\ IF Contributing = {}
            THEN st.avg_price_1y_usd.num = 0 /\ st.sample_size_1y = 0
            ELSE st.avg_price_1y_usd.num * Cardinality(Contributing)
                   = SumOver(amounts, Contributing) * st.avg_price_1y_usd.den

\* C8 witness: a window of two records, one conversion failed and one succeeded
C8_Witness ==
    /\ pc = "built"
    /\ Len(sales_1y) = 2
    /\ Cardinality(Contributing) = 1
    /\ payload[1].stats.sample_size_1y = 1

\* C8 witness of the empty case: a non-empty window, every conversion failed
C8_WitnessAllFailed ==
    /\ pc = "built"
    /\ Len(sales_1y) >= 1
    /\ Contributing = {}
    /\ payload[1].stats.sample_size_1y = 0

\* C9: sales_5y has exactly one entry, in order, for every record of the 5-year
\* window, whatever the conversions did; a failed conversion leaves price_usd null,
\* never removes the entry and never leaves the function as an exception; a record
\* whose conversions fail is counted neither in sample_size_1y nor in the average.
C9_FailedConversionKept ==
    /\ exc # "Exception"
    /\ pc = "built" =>
         LET es == payload[1].sales_5y
             st == payload[1].stats
             w5 == Window(sales, 5, today5)
             amounts == [i \in 1..Len(sales_1y) |-> Converted(sales_1y[i], fx1[i])]
             failed == {i \in 1..Len(sales_1y) : ~Succeeds(sales_1y[i], fx1[i])}
         IN /\ Len(es) = Len(w5)
            /\ \A i \in 1..Len(w5) :
                  /\ EntryOf(es[i], w5[i])
                  /\ ~Succeeds(w5[i], fx5[i]) => es[i].price_usd = None
                  /\ Succeeds(w5[i], fx5[i]) => es[i].price_usd = Some(Converted(w5[i], fx5[i]))
            /\ st.sample_size_1y = Len(sales_1y) - Cardinality(failed)
            /\ st.avg_price_1y_usd.num = SumOver(amounts, (1..Len(sales_1y)) \ failed)

\* C9 witness: the only record of both windows failed to convert in both loops; it
\* is in sales_5y with price_usd null, and the statistics are 0
C9_Witness ==
    /\ pc = "built"
    /\ Len(sales_1y) = 1
    /\ Len(payload[1].sales_5y) = 1
    /\ EntryOf(payload[1].sales_5y[1], sales_1y[1])
    /\ fx5[1] = None
    /\ fx1[1] = None
    /\ Upper(sales_1y[1].currency) # USD
    /\ payload[1].sales_5y[1].price_usd = None
    /\ payload[1].stats.sample_size_1y = 0
    /\ payload[1].stats.avg_price_1y_usd.num = 0


\* ------------------------------------------------------- claims on main
\* the number of observations the sources together produced for finished row k
RECURSIVE CountFetched(_)
CountFetched(log) ==
    IF log = <<>> THEN 0
    ELSE (IF Head(log).got = None THEN 0 ELSE Len(Head(log).got[1])) + CountFetched(Tail(log))

Observed(k) == CountFetched(row_log[k].fetched)

\* the rows whose sources produced at least one observation
RowsWithSales == {k \in 1..Len(rows) : Observed(k) > 0}

\* name and year of each payload, in order
PayloadIds(ps) == [k \in 1..Len(ps) |-> <<ps[k].vehicle_name, ps[k].vehicle_year>>]

RowIds == [k \in 1..Len(rows) |-> <<rows[k].name, IntOf(rows[k].year).val>>]

\* C10: at the end of a run of main, a vehicle whose sources together produced no
\* observation has no payload and is not counted: the snapshot's vehicles are the
\* payloads of the vehicles with an observation, in input order, vehicle_count is
\* their number; with no payload there is no snapshot and post_to_market_api is
\* never called.
C10_EmptyVehiclesSkipped ==
    /\ pc # "done" => snapshot = None /\ posts = <<>>
    /\ pc = "done" =>
         /\ Len(row_log) = Len(rows)
         /\ \A k \in 1..Len(rows) : row_log[k].built <=> k \in RowsWithSales
         /\ PayloadIds(all_vehicle_payloads) = SubsequenceAt(RowIds, RowsWithSales, 1)
         /\ IF RowsWithSales = {}
            THEN snapshot = None /\ posts = <<>>
            ELSE /\ snapshot # None
                 /\ snapshot[1].vehicles = all_vehicle_payloads
                 /\ snapshot[1].vehicle_count = Len(snapshot[1].vehicles)
                 /\ snapshot[1].vehicle_count = Cardinality(RowsWithSales)
                 /\ Len(posts) = 1
                 /\ posts[1].payload = snapshot[1]

\* C10 witness: of two vehicles the first had no observation (one of its sources
\* raised), the second had one; the snapshot counts one vehicle, the second
C10_Witness ==
    /\ pc = "done"
    /\ Len(rows) = 2
    /\ Observed(1) = 0
    /\ \E e \in 1..Len(row_log[1].fetched) : row_log[1].fetched[e].got = None
    /\ Observed(2) > 0
    /\ snapshot # None
    /\ snapshot[1].vehicle_count = 1
    /\ snapshot[1].vehicles[1].vehicle_name = rows[2].name

\* C10 witness of the empty run: rows were processed, none had an observation, and
\* main returned with no snapshot and no call of post_to_market_api
C10_WitnessNothingToPost ==
    /\ pc = "done"
    /\ Len(rows) = 2
    /\ RowsWithSales = {}
    /\ snapshot = None
    /\ posts = <<>>

\* the observations the sources of one row returned, in fetch order; a source
\* that raised contributes none
RECURSIVE FetchedSales(_)
FetchedSales(log) ==
    IF log = <<>> THEN <<>>
    ELSE (IF Head(log).got = None THEN <<>> ELSE Head(log).got[1]) \o FetchedSales(Tail(log))

\* the payload built for the finished row k
PayloadOf(k) == all_vehicle_payloads[Cardinality({j \in 1..k : row_log[j].built})]

\* the record s is in the 5-year window whenever build reads the clock in this run
AlwaysIn5y(s) == InWindow(s, 5, Today0) /\ InWindow(s, 5, clock)

\* C11: a source whose fetch raises for one vehicle contributes no observation for
\* that vehicle and aborts nothing: while a row is being fetched, all_sales is the
\* concatenation of what the sources that did not raise returned; a finished row
\* aggregated exactly those observations, has a payload when there is one, and
\* each of them inside the 5-year window has its sales_5y entry in that payload;
\* the run never ends on a source failure (it can only end early on a year that
\* is not an integer, before any source of that row is fetched); every row
\* before the current one has been processed, so a run that reaches the end has
\* processed every row; and the snapshot exists, and is posted, only once every
\* row has been processed.
C11_FailedSourceAbortsNothing ==
    /\ pc \in {"cc", "classic", "aggregate"} => all_sales = FetchedSales(fetch_log)
    /\ \A k \in 1..Len(row_log) :
         /\ row_log[k].found = FetchedSales(row_log[k].fetched)
         /\ row_log[k].built <=> row_log[k].found # <<>>
         /\ row_log[k].built =>
              \A i \in 1..Len(row_log[k].found) :
                 AlwaysIn5y(row_log[k].found[i]) =>
                    \E e \in 1..Len(PayloadOf(k).sales_5y) :
                       EntryOf(PayloadOf(k).sales_5y[e], row_log[k].found[i])
    /\ pc = "crashed" =>
         /\ exc = "ValueError"
         /\ IntOf(rows[row_i].year).exc = "ValueError"
         /\ fetch_log = <<>>
    /\ row_i = Len(row_log) + 1
    /\ pc = "done" => Len(row_log) = Len(rows)
    /\ (snapshot # None \/ posts # <<>>) =>
         /\ pc = "done"
         /\ row_i > Len(rows)
         /\ Len(row_log) = Len(rows)

\* a finished run of two rows: for the first, Bring a Trailer raised and
\* Classic.com returned an observation, which is in the first payload; the
\* second row was processed after it and the snapshot holds both payloads
C11_Witness ==
    /\ pc = "done"
    /\ Len(rows) = 2
    /\ \E f \in 1..Len(row_log[1].fetched) :
          /\ row_log[1].fetched[f].source = "bring_a_trailer"
          /\ row_log[1].fetched[f].got = None
    /\ row_log[1].found = <<ClassicCard>>
    /\ row_log[1].built
    /\ Len(all_vehicle_payloads) = 2
    /\ \E e \in 1..Len(all_vehicle_payloads[1].sales_5y) :
          EntryOf(all_vehicle_payloads[1].sales_5y[e], ClassicCard)
    /\ row_log[2].built
    /\ snapshot # None
    /\ snapshot[1].vehicle_count = 2

====
